---- MODULE Spec2Model ----
(***************************************************************************)
(* J-Quants MCP server (src/src/jquants_free_mcp_server/server.py).        *)
(*                                                                         *)
(* The module-level cache _client, get_client, _convert_df_to_json and the *)
(* five tools search_company, get_daily_quotes, get_financial_statements,  *)
(* get_topix_prices and get_trades_spec.                                   *)
(*                                                                         *)
(* A DataFrame is a sequence of rows, a row a function from column names   *)
(* to cells.  A cell is a tagged value: a string (a sequence of            *)
(* characters), a number, NaN, a pandas Timestamp, None, a date object or  *)
(* an array.  The JSON text a tool returns is represented by the JSON      *)
(* object it denotes: a function from the top-level keys to their values.  *)
(***************************************************************************)
EXTENDS Integers, Sequences, FiniteSets, TLC

\* ------------------------------------------------------------------ bounds
MaxRows == 3        \* rows of a DataFrame the upstream library returns
MaxQueryLen == 2    \* characters of a search_company query
MaxStart == 2       \* largest start_position tried (the smallest is -1)
MaxLimit == 2       \* largest limit tried (the smallest is 0)
MaxCtor == 2        \* jquantsapi.Client constructions in one run of Spec
NThreads == 2       \* threads racing in get_client in RaceSpec

VARIABLES
    env,      \* os.environ: JQUANTS_REFRESH_TOKEN, JQUANTS_MAIL_ADDRESS, JQUANTS_PASSWORD
    _client,  \* the module-level cache (line 11)
    nctor,    \* how many times jquantsapi.Client(...) has been called
    last,     \* the last finished tool invocation and what it did
    inp,      \* CallSpec: the invocation drawn at Init
    pc,       \* RaceSpec: where each thread is inside get_client
    loc       \* RaceSpec: each thread's locals inside get_client

vars == <<env, _client, nctor, last, inp, pc, loc>>

\* ------------------------------------------------------------------ cells
Str(s)  == [t |-> "str",  s |-> s,    n |-> 0]
Num(n)  == [t |-> "num",  s |-> <<>>, n |-> n]
NaN     == [t |-> "nan",  s |-> <<>>, n |-> 0]
Ts(d)   == [t |-> "ts",   s |-> <<>>, n |-> d]
PyNone  == [t |-> "null", s |-> <<>>, n |-> 0]
Date(d) == [t |-> "date", s |-> <<>>, n |-> d]
Arr     == [t |-> "arr",  s |-> <<>>, n |-> 0]

Digit(d) == <<"0", "1", "2", "3", "4", "5", "6", "7", "8", "9">>[d + 1]

\* str(datetime.date(2023, 1, d)), 1 <= d <= 9
DateStr(d) == <<"2", "0", "2", "3", "-", "0", "1", "-", "0", Digit(d)>>

\* pd.Timestamp(2023, 1, d).isoformat()
isoformat(d) == DateStr(d) \o <<"T", "0", "0", ":", "0", "0", ":", "0", "0">>

\* pd.isna(v) for a scalar cell
isna(v) == v.t \in {"nan", "null"}

\* ------------------------------------------------------------- exceptions
NoExc == [type |-> "", msg |-> ""]
CredentialsNotFound ==
    [type |-> "ValueError", msg |-> "Authentication credentials not found."]
ClientInitError ==
    [type |-> "ValueError", msg |-> "mail_address must contain '@' character."]
AmbiguousTruth ==
    [type |-> "ValueError", msg |-> "The truth value of an array is ambiguous."]
ReError == [type |-> "re.error", msg |-> "missing ), unterminated subpattern"]
Http500 == [type |-> "HTTPError", msg |-> "500 Server Error"]
Http401 == [type |-> "HTTPError", msg |-> "401 Client Error"]
ReadTimeout == [type |-> "Timeout", msg |-> "Read timed out."]

\* What the jquantsapi call of a tool can raise.
UpstreamErrors == {Http500, Http401, ReadTimeout}

Raise(e)  == [raised |-> TRUE,  exc |-> e,     value |-> <<>>]
Return(v) == [raised |-> FALSE, exc |-> NoExc, value |-> v]

\* ------------------------------------------------------------ credentials
None == [id |-> 0, kind |-> "None"]

Envs == [refresh_token : {"", "rt"}, mail_address : {"", "m@x"}, password : {"", "pw"}]

\* Outcomes of jquantsapi.Client(...): it returns the client or raises.
CtorOutcomes == {"ok", "raise"}

\* Select with the mail address and password tried before the token.
Select_mail_first(e) ==
    IF e.mail_address # "" /\ e.password # "" THEN "mail_password"
    ELSE IF e.refresh_token # "" THEN "refresh_token"
    ELSE "raise"

\* Select with the else branch constructing from whatever is set.
Select_no_raise(e) ==
    IF e.refresh_token # "" THEN "refresh_token" ELSE "mail_password"

\* Lines 36-45: which constructor the environment read at lines 32-34 selects.
Select(e) ==
    IF e.refresh_token # "" THEN "refresh_token"
    ELSE IF e.mail_address # "" /\ e.password # "" THEN "mail_password"
    ELSE "raise"

\* get_client without lines 29-30: the environment is resolved on every call.
get_client_no_cache(client, e, ctor, n) ==
    IF Select(e) = "raise"
    THEN [raised |-> TRUE, exc |-> CredentialsNotFound, ret |-> None,
          client |-> None, nctor |-> n, called |-> "none"]
    ELSE IF ctor = "raise"
    THEN [raised |-> TRUE, exc |-> ClientInitError, ret |-> None,
          client |-> client, nctor |-> n + 1, called |-> Select(e)]
    ELSE [raised |-> FALSE, exc |-> NoExc,
          ret |-> [id |-> n + 1, kind |-> Select(e)],
          client |-> [id |-> n + 1, kind |-> Select(e)],
          nctor |-> n + 1, called |-> Select(e)]

\* get_client: the cache client, the environment e, the outcome ctor of the
\* constructor if it is called, and the constructions n so far.  The result
\* holds the cache afterwards, the returned handle or the exception, and
\* the constructor that was called ("none" when there was no call).
get_client(client, e, ctor, n) ==
    IF client # None
    THEN [raised |-> FALSE, exc |-> NoExc, ret |-> client, client |-> client,
          nctor |-> n, called |-> "none"]
    ELSE IF Select(e) = "raise"
    THEN [raised |-> TRUE, exc |-> CredentialsNotFound, ret |-> None,
          client |-> None, nctor |-> n, called |-> "none"]
    ELSE IF ctor = "raise"
    THEN [raised |-> TRUE, exc |-> ClientInitError, ret |-> None,
          client |-> None, nctor |-> n + 1, called |-> Select(e)]
    ELSE [raised |-> FALSE, exc |-> NoExc,
          ret |-> [id |-> n + 1, kind |-> Select(e)],
          client |-> [id |-> n + 1, kind |-> Select(e)],
          nctor |-> n + 1, called |-> Select(e)]

\* ----------------------------------------------------------------- pandas
Min(a, b) == IF a < b THEN a ELSE b
Max(a, b) == IF a > b THEN a ELSE b

\* iloc with the row at stop included.
iloc_stop_included(df, start, stop) ==
    LET n  == Len(df)
        lo == IF start < 0 THEN (IF start + n > 0 THEN start + n ELSE 0)
              ELSE (IF start < n THEN start ELSE n)
        hi == IF stop + 1 < 0 THEN (IF stop + 1 + n > 0 THEN stop + 1 + n ELSE 0)
              ELSE (IF stop + 1 < n THEN stop + 1 ELSE n)
    IN  IF lo < hi THEN SubSeq(df, lo + 1, hi) ELSE <<>>

\* df.iloc[start:stop]: a Python slice of the rows (0-based, stop excluded,
\* a negative index counts from the end, out-of-range indexes are clamped).
iloc(df, start, stop) ==
    LET n  == Len(df)
        lo == IF start < 0 THEN Max(start + n, 0) ELSE Min(start, n)
        hi == IF stop < 0 THEN Max(stop + n, 0) ELSE Min(stop, n)
    IN  IF lo < hi THEN SubSeq(df, lo + 1, hi) ELSE <<>>

\* The characters of company names and queries.  "." and "(" are special
\* characters of Python's re syntax.
Lower(c) == IF c = "A" THEN "a" ELSE IF c = "B" THEN "b" ELSE c

\* re.compile(pat): with no ")" among the characters, a "(" never closes.
re_compiles(pat) == \A j \in 1..Len(pat) : pat[j] # "("

\* re.compile(pat, re.IGNORECASE).search(s) for a pattern of literals and ".".
re_search(pat, s) ==
    \E i \in 0..(Len(s) - Len(pat)) :
        \A j \in 1..Len(pat) : pat[j] = "." \/ Lower(pat[j]) = Lower(s[i + j])

\* Series.str.contains(pat, case=False, na=False) on one cell: pat is a
\* regular expression (regex=True is the default), a missing value gives False.
str_contains(v, pat) == IF v.t = "str" THEN re_search(pat, v.s) ELSE FALSE

\* Lines 102-106: the rows of df the mask keeps.
filter_by_query(df, query) ==
    SelectSeq(df, LAMBDA r : \/ str_contains(r.CompanyName, query)
                             \/ str_contains(r.CompanyNameEnglish, query))

\* Lines 69-72: one cell of a record.
convert_cell(v) ==
    IF v.t = "ts" THEN Str(isoformat(v.n)) ELSE IF isna(v) THEN PyNone ELSE v

\* json.dumps(..., default=str) on one cell: str() of what JSON cannot hold.
json_default(v) == IF v.t = "date" THEN Str(DateStr(v.n)) ELSE v

\* Line 71: pd.isna of an array is an array, whose truth value raises.
isna_raises(df) ==
    \E i \in 1..Len(df) : \E k \in DOMAIN df[i] : df[i][k].t = "arr"

\* _convert_df_to_json(df, key): the JSON object {key: [record, ...]}.
_convert_df_to_json(df, key) ==
    IF isna_raises(df) THEN Raise(AmbiguousTruth)
    ELSE Return([x \in {key} |->
            [i \in 1..Len(df) |->
                [k \in DOMAIN df[i] |-> json_default(convert_cell(df[i][k]))]]])

\* remove_empty with "if v" for the test: zero and null go too.
remove_falsy(records) ==
    [i \in 1..Len(records) |->
        [k \in {f \in DOMAIN records[i] :
                    records[i][f] \notin {Str(<<>>), Num(0), PyNone}} |-> records[i][k]]]

\* Lines 198-201: the records without their empty-string values.
remove_empty(records) ==
    [i \in 1..Len(records) |->
        [k \in {f \in DOMAIN records[i] : records[i][f] # Str(<<>>)} |-> records[i][k]]]

\* ------------------------------------------------------------------ tools
Call(method, kwargs) == <<[method |-> method, kwargs |-> kwargs]>>

\* Each tool body: gc is what get_client did, up what the jquantsapi call
\* does if it is made.  out is the body's return value or exception, calls
\* the jquantsapi data calls made.

\* Lines 98-111.
search_company(query, limit, start_position, gc, up) ==
    IF gc.raised THEN [out |-> Raise(gc.exc), calls |-> <<>>]
    ELSE LET calls == Call("get_listed_info", <<>>) IN
         IF up.raised THEN [out |-> Raise(up.exc), calls |-> calls]
         ELSE IF ~re_compiles(query) THEN [out |-> Raise(ReError), calls |-> calls]
         ELSE LET filtered_df  == filter_by_query(up.value, query)
                  paginated_df == iloc(filtered_df, start_position, start_position + limit)
              IN  [out |-> _convert_df_to_json(paginated_df, "info"), calls |-> calls]

\* Lines 146-157.
get_daily_quotes(code, from_yyyymmdd, to_yyyymmdd, limit, start_position, gc, up) ==
    IF gc.raised THEN [out |-> Raise(gc.exc), calls |-> <<>>]
    ELSE LET calls == Call("get_prices_daily_quotes",
                           [code |-> code, from_yyyymmdd |-> from_yyyymmdd,
                            to_yyyymmdd |-> to_yyyymmdd]) IN
         IF up.raised THEN [out |-> Raise(up.exc), calls |-> calls]
         ELSE LET paginated_df == iloc(up.value, start_position, start_position + limit)
              IN  [out |-> _convert_df_to_json(paginated_df, "daily_quotes"), calls |-> calls]

\* Lines 187-203.
get_financial_statements(code, limit, start_position, gc, up) ==
    IF gc.raised THEN [out |-> Raise(gc.exc), calls |-> <<>>]
    ELSE LET calls == Call("get_fins_statements", [code |-> code]) IN
         IF up.raised THEN [out |-> Raise(up.exc), calls |-> calls]
         ELSE LET paginated_df == iloc(up.value, start_position, start_position + limit)
                  json_str     == _convert_df_to_json(paginated_df, "statements")
              IN  IF json_str.raised THEN [out |-> json_str, calls |-> calls]
                  ELSE [out |-> Return([x \in {"statements"} |->
                                    remove_empty(json_str.value["statements"])]),
                        calls |-> calls]

\* Lines 232-242.  pagination_key is not passed on.
get_topix_prices(from_yyyymmdd, to_yyyymmdd, pagination_key, limit, start_position, gc, up) ==
    IF gc.raised THEN [out |-> Raise(gc.exc), calls |-> <<>>]
    ELSE LET calls == Call("get_indices_topix",
                           [from_yyyymmdd |-> from_yyyymmdd, to_yyyymmdd |-> to_yyyymmdd]) IN
         IF up.raised THEN [out |-> Raise(up.exc), calls |-> calls]
         ELSE LET paginated_df == iloc(up.value, start_position, start_position + limit)
              IN  [out |-> _convert_df_to_json(paginated_df, "topix"), calls |-> calls]

\* trades_spec_kwargs without the tests of lines 282, 284 and 286.
trades_spec_kwargs_all(section, from_yyyymmdd, to_yyyymmdd) ==
    [section |-> section, from_yyyymmdd |-> from_yyyymmdd, to_yyyymmdd |-> to_yyyymmdd]

\* Lines 281-287: the keyword arguments of get_markets_trades_spec.
trades_spec_kwargs(section, from_yyyymmdd, to_yyyymmdd) ==
    LET given == [section |-> section, from_yyyymmdd |-> from_yyyymmdd,
                  to_yyyymmdd |-> to_yyyymmdd]
    IN  [k \in {p \in DOMAIN given : given[p] # ""} |-> given[k]]

\* Lines 278-294.  pagination_key is not passed on.
get_trades_spec(section, from_yyyymmdd, to_yyyymmdd, pagination_key, limit, start_position, gc, up) ==
    IF gc.raised THEN [out |-> Raise(gc.exc), calls |-> <<>>]
    ELSE LET calls == Call("get_markets_trades_spec",
                           trades_spec_kwargs(section, from_yyyymmdd, to_yyyymmdd)) IN
         IF up.raised THEN [out |-> Raise(up.exc), calls |-> calls]
         ELSE LET paginated_df == iloc(up.value, start_position, start_position + limit)
              IN  [out |-> _convert_df_to_json(paginated_df, "trades_spec"), calls |-> calls]

\* except ValueError in place of except Exception.
Catches_value_error(e) == e.type = "ValueError"

\* except Exception (lines 113, 159, 205, 244, 296): the classes it catches.
Catches(e) == e.type \in {"ValueError", "re.error", "HTTPError", "Timeout"}

\* An error response whose status names the kind of failure.
error_response_by_type(e) ==
    [error |-> e.msg,
     status |-> IF e.type = "HTTPError" THEN "http_error" ELSE "error"]

\* The error response of every tool (lines 114, 160, 206, 245, 297).
error_response(e) == [error |-> e.msg, status |-> "error"]

\* try: body / except Exception as e: return json.dumps(error_response)
try_except(b) ==
    IF ~b.raised THEN [fault |-> FALSE, ret |-> b.value]
    ELSE IF Catches(b.exc) THEN [fault |-> FALSE, ret |-> error_response(b.exc)]
    ELSE [fault |-> TRUE, ret |-> <<>>]

\* ----------------------------------------------------------------- inputs
\* The arguments of one tool invocation; a tool reads only its own.
Args(op, query, code, section, from_yyyymmdd, to_yyyymmdd, pagination_key, limit, start_position) ==
    [op |-> op, query |-> query, code |-> code, section |-> section,
     from_yyyymmdd |-> from_yyyymmdd, to_yyyymmdd |-> to_yyyymmdd,
     pagination_key |-> pagination_key, limit |-> limit,
     start_position |-> start_position]

Starts == (-1)..MaxStart
Limits == 0..MaxLimit

QueryChars == {"a", "B", ".", "("}
Queries == UNION {[1..n -> QueryChars] : n \in 0..MaxQueryLen}

\* Rows of client.get_listed_info().
ListedRows ==
    {[Date |-> Ts(1), Code |-> Str(<<"1">>),
      CompanyName |-> Str(<<"A", "b">>), CompanyNameEnglish |-> NaN],
     [Date |-> Ts(1), Code |-> Str(<<"2">>),
      CompanyName |-> Str(<<"b">>), CompanyNameEnglish |-> Str(<<"a", ".">>)],
     [Date |-> Ts(1), Code |-> Str(<<"3">>),
      CompanyName |-> NaN, CompanyNameEnglish |-> Str(<<"B", "b">>)]}

\* Rows of the other four jquantsapi calls.
PlainRows ==
    {[Date |-> Ts(1), Value |-> Num(0), Note |-> Str(<<>>)],
     [Date |-> Ts(2), Value |-> NaN, Note |-> Str(<<"a">>)],
     [Date |-> Date(3), Value |-> PyNone, Note |-> Str(<<>>)]}
ArrRow == [Date |-> Ts(4), Value |-> Arr, Note |-> Str(<<"a">>)]
DataRows == PlainRows \cup {ArrRow}

Tables(rows) == UNION {[1..n -> rows] : n \in 0..MaxRows}

SearchArgs ==
    {Args("search_company", q, "", "", "", "", "", l, s) :
        q \in Queries, l \in Limits, s \in Starts}
QuotesArgs ==
    {Args("get_daily_quotes", <<>>, "72030", "", "20230101", "20230131", "", l, s) :
        l \in Limits, s \in Starts}
StatementsArgs ==
    {Args("get_financial_statements", <<>>, "72030", "", "", "", "", l, s) :
        l \in Limits, s \in Starts}
TopixArgs ==
    {Args("get_topix_prices", <<>>, "", "", "20230101", "20230131", k, l, s) :
        k \in {"", "key"}, l \in Limits, s \in Starts}
TradesArgs ==
    {Args("get_trades_spec", <<>>, "", sec, f, t, k, l, s) :
        sec \in {"", "TSEPrime"}, f \in {"", "20230101"}, t \in {"", "20230131"},
        k \in {"", "key"}, l \in Limits, s \in Starts}

\* One invocation: its arguments, what the jquantsapi call does if it is
\* made, and what the constructor does if it is called.
Input(a, up, ctor) == [args |-> a, up |-> up, ctor |-> ctor]

\* A few invocations of every tool, with every outcome of the two calls.
FewArgs ==
    {a \in SearchArgs \cup QuotesArgs \cup StatementsArgs \cup TopixArgs \cup TradesArgs :
        /\ a.limit = 1 /\ a.start_position = 0
        /\ a.pagination_key = "" /\ a.section = ""
        /\ a.op = "search_company" => a.query \in {<<"a">>, <<"(">>}
        /\ a.op = "get_trades_spec" => a.from_yyyymmdd # "" /\ a.to_yyyymmdd # ""}

FewOutcomes(op) ==
    {Raise(e) : e \in UpstreamErrors}
    \cup
    (IF op = "search_company"
     THEN {Return(<<r>>) : r \in {x \in ListedRows : x.CompanyNameEnglish = NaN}}
     ELSE {Return(<<r>>) : r \in {x \in DataRows : x.Value \in {Num(0), Arr}}})

NoInput == Input(Args("none", <<>>, "", "", "", "", "", 0, 0), Return(<<>>), "ok")

\* CallSpec draws its environment among these for the invocations of DataInputs.
CallEnvs == {e \in Envs : e.mail_address = "" /\ e.password = ""}

\* ------------------------------------------------------------------ state
Threads == 1..NThreads

NoCall == [op |-> "none"]
NotCalled == Raise(NoExc)
NoLocals == [e |-> [refresh_token |-> "", mail_address |-> "", password |-> ""],
             obj |-> None, ret |-> None, raised |-> FALSE]

InitBase ==
    /\ _client = None
    /\ nctor = 0
    /\ last = NoCall
    /\ pc = [t \in Threads |-> "idle"]
    /\ loc = [t \in Threads |-> NoLocals]

\* The module just imported: no client yet, any environment.
Init ==
    /\ InitBase
    /\ env \in Envs
    /\ inp = NoInput

\* A tool invocation ends: the cache and the record of what it did.
Invoke(a, gc, up, b) ==
    /\ gc.nctor <= MaxCtor
    /\ _client' = gc.client
    /\ nctor' = gc.nctor
    /\ last' = [op |-> a.op, args |-> a, env |-> env, cached |-> _client,
                cred |-> gc, up |-> IF b.calls = <<>> THEN NotCalled ELSE up,
                calls |-> b.calls,
                fault |-> try_except(b.out).fault, ret |-> try_except(b.out).ret]

DoSearchCompany(a, ctor, up) ==
    LET gc == get_client(_client, env, ctor, nctor)
    IN  Invoke(a, gc, up,
               search_company(a.query, a.limit, a.start_position, gc, up))

DoGetDailyQuotes(a, ctor, up) ==
    LET gc == get_client(_client, env, ctor, nctor)
    IN  Invoke(a, gc, up,
               get_daily_quotes(a.code, a.from_yyyymmdd, a.to_yyyymmdd,
                                a.limit, a.start_position, gc, up))

DoGetFinancialStatements(a, ctor, up) ==
    LET gc == get_client(_client, env, ctor, nctor)
    IN  Invoke(a, gc, up,
               get_financial_statements(a.code, a.limit, a.start_position, gc, up))

DoGetTopixPrices(a, ctor, up) ==
    LET gc == get_client(_client, env, ctor, nctor)
    IN  Invoke(a, gc, up,
               get_topix_prices(a.from_yyyymmdd, a.to_yyyymmdd, a.pagination_key,
                                a.limit, a.start_position, gc, up))

DoGetTradesSpec(a, ctor, up) ==
    LET gc == get_client(_client, env, ctor, nctor)
    IN  Invoke(a, gc, up,
               get_trades_spec(a.section, a.from_yyyymmdd, a.to_yyyymmdd,
                               a.pagination_key, a.limit, a.start_position, gc, up))

\* ------------------------------------------- Spec: a run of invocations
\* The tools are called one after the other (the server runs a synchronous
\* tool to its end), and the environment may change between two calls.
SetEnv ==
    /\ \E e \in Envs : e # env /\ env' = e
    /\ UNCHANGED <<_client, nctor, last, inp, pc, loc>>

SearchCompany ==
    /\ \E a \in FewArgs, ctor \in CtorOutcomes :
          /\ a.op = "search_company"
          /\ \E up \in FewOutcomes(a.op) : DoSearchCompany(a, ctor, up)
    /\ UNCHANGED <<env, inp, pc, loc>>

GetDailyQuotes ==
    /\ \E a \in FewArgs, ctor \in CtorOutcomes :
          /\ a.op = "get_daily_quotes"
          /\ \E up \in FewOutcomes(a.op) : DoGetDailyQuotes(a, ctor, up)
    /\ UNCHANGED <<env, inp, pc, loc>>

GetFinancialStatements ==
    /\ \E a \in FewArgs, ctor \in CtorOutcomes :
          /\ a.op = "get_financial_statements"
          /\ \E up \in FewOutcomes(a.op) : DoGetFinancialStatements(a, ctor, up)
    /\ UNCHANGED <<env, inp, pc, loc>>

GetTopixPrices ==
    /\ \E a \in FewArgs, ctor \in CtorOutcomes :
          /\ a.op = "get_topix_prices"
          /\ \E up \in FewOutcomes(a.op) : DoGetTopixPrices(a, ctor, up)
    /\ UNCHANGED <<env, inp, pc, loc>>

GetTradesSpec ==
    /\ \E a \in FewArgs, ctor \in CtorOutcomes :
          /\ a.op = "get_trades_spec"
          /\ \E up \in FewOutcomes(a.op) : DoGetTradesSpec(a, ctor, up)
    /\ UNCHANGED <<env, inp, pc, loc>>

Next ==
    \/ SetEnv
    \/ SearchCompany
    \/ GetDailyQuotes
    \/ GetFinancialStatements
    \/ GetTopixPrices
    \/ GetTradesSpec

Spec == Init /\ [][Next]_vars

\* ------------------------------- CallSpec: one invocation on drawn inputs
\* Either every page of every DataFrame with the calls succeeding, or a few
\* invocations with every environment and every outcome of the calls.
InitCall ==
    /\ InitBase
    /\ \/ /\ env \in CallEnvs
          /\ \E df \in Tables(ListedRows) : \E a \in SearchArgs :
                inp = Input(a, Return(df), "ok")
       \/ /\ env \in CallEnvs
          /\ \E df \in Tables(DataRows) :
                \E a \in QuotesArgs \cup StatementsArgs \cup TopixArgs \cup TradesArgs :
                   inp = Input(a, Return(df), "ok")
       \/ /\ env \in Envs
          /\ \E a \in FewArgs, ctor \in CtorOutcomes : \E up \in FewOutcomes(a.op) :
                inp = Input(a, up, ctor)

CallSearchCompany ==
    /\ inp.args.op = "search_company"
    /\ DoSearchCompany(inp.args, inp.ctor, inp.up)
    /\ UNCHANGED <<env, inp, pc, loc>>

CallGetDailyQuotes ==
    /\ inp.args.op = "get_daily_quotes"
    /\ DoGetDailyQuotes(inp.args, inp.ctor, inp.up)
    /\ UNCHANGED <<env, inp, pc, loc>>

CallGetFinancialStatements ==
    /\ inp.args.op = "get_financial_statements"
    /\ DoGetFinancialStatements(inp.args, inp.ctor, inp.up)
    /\ UNCHANGED <<env, inp, pc, loc>>

CallGetTopixPrices ==
    /\ inp.args.op = "get_topix_prices"
    /\ DoGetTopixPrices(inp.args, inp.ctor, inp.up)
    /\ UNCHANGED <<env, inp, pc, loc>>

CallGetTradesSpec ==
    /\ inp.args.op = "get_trades_spec"
    /\ DoGetTradesSpec(inp.args, inp.ctor, inp.up)
    /\ UNCHANGED <<env, inp, pc, loc>>

NextCall ==
    \/ CallSearchCompany
    \/ CallGetDailyQuotes
    \/ CallGetFinancialStatements
    \/ CallGetTopixPrices
    \/ CallGetTradesSpec

CallSpec == InitCall /\ [][NextCall]_vars

\* ------------------------------ RaceSpec: threads racing in get_client
\* Each thread calls get_client once.  A step is what one thread does
\* between two points where another thread may run.

\* The call.
Enter(t) ==
    /\ pc[t] = "idle"
    /\ pc' = [pc EXCEPT ![t] = "l29"]
    /\ UNCHANGED <<env, _client, nctor, last, inp, loc>>

\* Lines 29-30: the cache is read.
Check(t) ==
    /\ pc[t] = "l29"
    /\ IF _client # None
       THEN /\ loc' = [loc EXCEPT ![t].ret = _client]
            /\ pc' = [pc EXCEPT ![t] = "done"]
       ELSE /\ loc' = loc
            /\ pc' = [pc EXCEPT ![t] = "l32"]
    /\ UNCHANGED <<env, _client, nctor, last, inp>>

\* Lines 32-34.
ReadEnv(t) ==
    /\ pc[t] = "l32"
    /\ loc' = [loc EXCEPT ![t].e = env]
    /\ pc' = [pc EXCEPT ![t] = "l36"]
    /\ UNCHANGED <<env, _client, nctor, last, inp>>

\* Lines 40-45: no credentials.
RaiseNotFound(t) ==
    /\ pc[t] = "l36"
    /\ Select(loc[t].e) = "raise"
    /\ loc' = [loc EXCEPT ![t].raised = TRUE]
    /\ pc' = [pc EXCEPT ![t] = "done"]
    /\ UNCHANGED <<env, _client, nctor, last, inp>>

\* Lines 36-39, the right-hand side: jquantsapi.Client(...) returns a new
\* client or raises.
Construct(t) ==
    /\ pc[t] = "l36"
    /\ Select(loc[t].e) # "raise"
    /\ nctor' = nctor + 1
    /\ \E ctor \in CtorOutcomes :
          IF ctor = "raise"
          THEN /\ loc' = [loc EXCEPT ![t].raised = TRUE]
               /\ pc' = [pc EXCEPT ![t] = "done"]
          ELSE /\ loc' = [loc EXCEPT ![t].obj = [id |-> nctor + 1, kind |-> Select(loc[t].e)]]
               /\ pc' = [pc EXCEPT ![t] = "store"]
    /\ UNCHANGED <<env, _client, last, inp>>

\* Lines 37, 39, the assignment to the global.
Store(t) ==
    /\ pc[t] = "store"
    /\ _client' = loc[t].obj
    /\ pc' = [pc EXCEPT ![t] = "l47"]
    /\ UNCHANGED <<env, nctor, last, inp, loc>>

\* Line 47: return _client reads the global.
ReturnClient(t) ==
    /\ pc[t] = "l47"
    /\ loc' = [loc EXCEPT ![t].ret = _client]
    /\ pc' = [pc EXCEPT ![t] = "done"]
    /\ UNCHANGED <<env, _client, nctor, last, inp>>

NextRace ==
    \E t \in Threads :
        \/ Enter(t)
        \/ Check(t)
        \/ ReadEnv(t)
        \/ RaiseNotFound(t)
        \/ Construct(t)
        \/ Store(t)
        \/ ReturnClient(t)

RaceSpec == Init /\ [][NextRace]_vars

\* ================================================================ claims
Ops == {"search_company", "get_daily_quotes", "get_financial_statements",
        "get_topix_prices", "get_trades_spec"}

\* The key each tool passes to _convert_df_to_json (lines 111, 157, 194, 242, 294).
RecordKey(op) ==
    CASE op = "search_company" -> "info"
      [] op = "get_daily_quotes" -> "daily_quotes"
      [] op = "get_financial_statements" -> "statements"
      [] op = "get_topix_prices" -> "topix"
      [] op = "get_trades_spec" -> "trades_spec"

Called == last.op \in Ops
IsError == DOMAIN last.ret = {"error", "status"}
IsSuccess == DOMAIN last.ret = {RecordKey(last.op)}
Records == last.ret[RecordKey(last.op)]
ValidPage == last.args.start_position >= 0 /\ last.args.limit > 0

\* The cell a JSON record holds for the cell v of a DataFrame.
JsonCell(v) ==
    IF v.t = "ts" THEN Str(isoformat(v.n))
    ELSE IF v.t = "date" THEN Str(DateStr(v.n))
    ELSE IF v.t \in {"nan", "null"} THEN PyNone
    ELSE v

\* The window [start, start + limit) of seq, for start >= 0 and limit > 0.
Window(seq, start, limit) ==
    [i \in 1..Max(0, Min(limit, Len(seq) - start)) |-> seq[start + i]]

\* ---- C1
\* C1: every invocation of each of the five tools, whatever get_client, the
\* jquantsapi call and the conversion do, ends by returning one envelope:
\* either the tool's record key alone, or "error" and "status" alone; no
\* exception leaves the tool.
C1_OneEnvelope ==
    Called => /\ ~last.fault
              /\ IsSuccess \/ IsError
              /\ ~(IsSuccess /\ IsError)

\* All the ways a tool can fail and succeed are among the invocations.
C1_Witness ==
    /\ last.op = "get_financial_statements"
    /\ last.calls # <<>>
    /\ ~last.up.raised
    /\ isna_raises(last.up.value)
    /\ IsError

\* ---- C2
\* The DataFrame the window is taken from.
C2_Filtered ==
    IF last.op = "search_company"
    THEN filter_by_query(last.up.value, last.args.query)
    ELSE last.up.value

\* C2: for start_position >= 0 and limit > 0, a successful call of any of
\* the five tools returns the records of the rows start_position ..
\* start_position + limit - 1 of the (filtered) DataFrame, in their order:
\* max(0, min(limit, total - start_position)) of them.
C2_Slice ==
    (Called /\ IsSuccess /\ ValidPage) =>
        LET total == Len(C2_Filtered)
            start == last.args.start_position
            count == Max(0, Min(last.args.limit, total - start))
        IN  /\ Len(Records) = count
            /\ start >= total => Records = <<>>
            /\ \A i \in 1..count :
                 \A k \in DOMAIN Records[i] :
                    Records[i][k] = JsonCell(C2_Filtered[start + i][k])

\* A window that leaves out the row before it and the row after it.
C2_Witness ==
    /\ Called /\ IsSuccess
    /\ last.op = "get_daily_quotes"
    /\ last.args.start_position = 1 /\ last.args.limit = 1
    /\ Len(last.up.value) = 3
    /\ Len(Records) = 1
    /\ last.up.value[2] # last.up.value[1]
    /\ last.up.value[2] # last.up.value[3]

\* ---- C3
\* C3: in a run of invocations, once get_client has stored a client, every
\* later invocation gets that client and constructs none, whatever the
\* environment is by then; the cache is never assigned again.
C3_Memoized ==
    [][_client # None =>
          /\ _client' = _client
          /\ nctor' = nctor
          /\ last' # last => /\ last'.cached = _client
                             /\ last'.cred.ret = _client
                             /\ last'.cred.called = "none"]_vars

\* An invocation that finds the client cached while the environment no
\* longer holds the credential the client was made from.
C3_Witness ==
    /\ Called
    /\ last.cached # None
    /\ last.cached.kind = "refresh_token"
    /\ last.env.refresh_token = ""
    /\ last.env.mail_address # "" /\ last.env.password # ""
    /\ last.cred.ret = last.cached

\* ---- C4
\* C4: when threads race in get_client with no client cached, one client
\* only is constructed and every thread that gets a client gets that one.
C4_SingleResolution ==
    /\ Cardinality({loc[t].obj : t \in Threads} \ {None}) <= 1
    /\ \A t, u \in Threads :
          (pc[t] = "done" /\ pc[u] = "done" /\ ~loc[t].raised /\ ~loc[u].raised)
              => loc[t].ret = loc[u].ret

\* ---- C5
\* The jquantsapi call of the invocation raised an HTTP error.
C5_HttpFailure ==
    /\ Called
    /\ last.calls # <<>>
    /\ last.up.raised
    /\ last.up.exc.type = "HTTPError"

\* C5 as stated: when the jquantsapi call fails with an HTTP error status,
\* the tool returns an error envelope whose status is "http_error", with no
\* record key.
C5_StatusHttpError ==
    C5_HttpFailure => IsError /\ last.ret["status"] = "http_error"

\* C5 amended: the envelope holds "error", the exception's text, and
\* "status", which is "error"; it holds no record key.
C5_StatusError ==
    C5_HttpFailure =>
        /\ IsError
        /\ last.ret["status"] = "error"
        /\ last.ret["error"] = last.up.exc.msg

C5_Witness ==
    /\ C5_HttpFailure
    /\ last.up.exc = Http500
    /\ last.op = "get_daily_quotes"

\* ---- C6
\* No credential source in the environment e.
NotConfigured(e) ==
    e.refresh_token = "" /\ (e.mail_address = "" \/ e.password = "")

\* C6: with no client cached and no credential in the environment (no
\* refresh token, and not both mail address and password), an invocation
\* returns an error envelope and makes no jquantsapi data call.
C6_NoCredentialNoCall ==
    (Called /\ last.cached = None /\ NotConfigured(last.env)) =>
        /\ IsError
        /\ last.calls = <<>>
        /\ _client = None

C6_Witness ==
    /\ Called
    /\ last.cached = None
    /\ last.env.refresh_token = "" /\ last.env.mail_address # "" /\ last.env.password = ""
    /\ IsError

\* ---- C7
\* C7: on a first resolution, get_client makes a refresh-token client
\* whenever a token is set (mail address and password set or not), else a
\* mail-and-password client when both are set, else raises the credentials
\* error and leaves the cache empty.
C7_Priority ==
    (Called /\ last.cached = None) =>
        LET e  == last.env
            gc == last.cred
        IN  /\ e.refresh_token # "" =>
                 /\ gc.called = "refresh_token"
                 /\ ~gc.raised => gc.ret.kind = "refresh_token" /\ _client = gc.ret
            /\ (e.refresh_token = "" /\ e.mail_address # "" /\ e.password # "") =>
                 /\ gc.called = "mail_password"
                 /\ ~gc.raised => gc.ret.kind = "mail_password" /\ _client = gc.ret
            /\ NotConfigured(e) =>
                 /\ gc.raised
                 /\ gc.exc = CredentialsNotFound
                 /\ gc.called = "none"
                 /\ _client = None

\* All three sources are set and the token wins.
C7_Witness ==
    /\ Called
    /\ last.cached = None
    /\ last.env.refresh_token # "" /\ last.env.mail_address # "" /\ last.env.password # ""
    /\ ~last.cred.raised
    /\ _client.kind = "refresh_token"

\* ---- C8
\* s contains q as a substring, letter case ignored.
ContainsIgnoreCase(s, q) ==
    \E i \in 0..(Len(s) - Len(q)) :
        \A j \in 1..Len(q) : Lower(q[j]) = Lower(s[i + j])

NameContains(v, q) == v.t = "str" /\ ContainsIgnoreCase(v.s, q)

\* C8: search_company keeps the rows whose CompanyName or
\* CompanyNameEnglish contains the query as a substring, letter case
\* ignored, drops the others, and takes the window among the kept rows.
C8_SubstringFilter ==
    (last.op = "search_company" /\ IsSuccess /\ ValidPage) =>
        LET kept == SelectSeq(last.up.value,
                        LAMBDA r : \/ NameContains(r.CompanyName, last.args.query)
                                   \/ NameContains(r.CompanyNameEnglish, last.args.query))
            rows == Window(kept, last.args.start_position, last.args.limit)
        IN  /\ Len(Records) = Len(rows)
            /\ \A i \in 1..Len(rows) : Records[i].Code = rows[i].Code

\* ---- C9
\* The optional parameters of the two tools, and what they passed on.
C9_Optional(op) ==
    IF op = "get_topix_prices" THEN {"pagination_key"}
    ELSE {"section", "from_yyyymmdd", "to_yyyymmdd", "pagination_key"}

C9_Kwargs == last.calls[1].kwargs

\* C9 as stated: get_topix_prices and get_trades_spec pass to jquantsapi
\* exactly the optional parameters given non-empty, pagination_key among them.
C9_OptionalForwarded ==
    (last.op \in {"get_topix_prices", "get_trades_spec"} /\ last.calls # <<>>) =>
        /\ DOMAIN C9_Kwargs \cap C9_Optional(last.op)
             = {k \in C9_Optional(last.op) : last.args[k] # ""}
        /\ \A k \in DOMAIN C9_Kwargs : C9_Kwargs[k] = last.args[k]

\* C9 amended: get_trades_spec passes exactly those of section,
\* from_yyyymmdd and to_yyyymmdd that are non-empty, each under its own
\* name; get_topix_prices passes its two dates; neither passes pagination_key.
C9_ForwardedButKey ==
    (last.op \in {"get_topix_prices", "get_trades_spec"} /\ last.calls # <<>>) =>
        /\ last.op = "get_trades_spec" =>
              DOMAIN C9_Kwargs
                = {k \in {"section", "from_yyyymmdd", "to_yyyymmdd"} : last.args[k] # ""}
        /\ last.op = "get_topix_prices" =>
              DOMAIN C9_Kwargs = {"from_yyyymmdd", "to_yyyymmdd"}
        /\ \A k \in DOMAIN C9_Kwargs : C9_Kwargs[k] = last.args[k]

C9_Witness ==
    /\ last.op = "get_trades_spec"
    /\ last.calls # <<>>
    /\ last.args.pagination_key # ""
    /\ last.args.section # ""
    /\ last.args.from_yyyymmdd = ""
    /\ last.args.to_yyyymmdd # ""
    /\ DOMAIN C9_Kwargs = {"section", "to_yyyymmdd"}

\* ---- C10
\* The rows a successful call made its records from.
C10_Rows ==
    iloc(IF last.op = "search_company"
         THEN filter_by_query(last.up.value, last.args.query)
         ELSE last.up.value,
         last.args.start_position, last.args.start_position + last.args.limit)

\* C10: no record of get_financial_statements holds an empty string, and
\* each holds every other field of its row, null and zero included; the
\* records of the other four tools hold every field of their rows.
C10_EmptyStrings ==
    (Called /\ IsSuccess) =>
        /\ Len(Records) = Len(C10_Rows)
        /\ \A i \in 1..Len(Records) :
              /\ DOMAIN Records[i] =
                    IF last.op = "get_financial_statements"
                    THEN {k \in DOMAIN C10_Rows[i] : C10_Rows[i][k] # Str(<<>>)}
                    ELSE DOMAIN C10_Rows[i]
              /\ \A k \in DOMAIN Records[i] :
                    /\ Records[i][k] = JsonCell(C10_Rows[i][k])
                    /\ last.op = "get_financial_statements" => Records[i][k] # Str(<<>>)

\* A statements record that lost its empty Note and kept its zero Value,
\* beside one that kept its null Value.
C10_Witness ==
    /\ last.op = "get_financial_statements"
    /\ IsSuccess
    /\ Len(Records) = 2
    /\ DOMAIN Records[1] = {"Date", "Value"}
    /\ Records[1].Value = Num(0)
    /\ Records[2].Value = PyNone

====
